---- MODULE Spec2Model ----
(***************************************************************************)
(* Model of src/app.py: a Flask service that stores tickets, mirrors them  *)
(* into a Telegram chat, takes status changes from an HTTP API and from a  *)
(* Telegram webhook, and re-sends tickets from a cron-triggered sweep.     *)
(*                                                                         *)
(* One action per HTTP handler; each action is the whole handler,          *)
(* including every Telegram call and every commit it performs.  Requests   *)
(* run one at a time, except under SpecRace, where two status transitions  *)
(* are served side by side, step by step.  Time is counted in whole hours  *)
(* (UTC); stored timestamps are compared as instants.                      *)
(***************************************************************************)
EXTENDS Integers, Sequences, FiniteSets, TLC

VARIABLES
    cfg,        \* the environment configuration read at import (lines 37-43)
    tickets,    \* the committed rows of table "tickets"; row i has id i
    now,        \* the wall clock, whole hours UTC
    nextMsg,    \* the next message_id Telegram will hand out
    last,       \* the last request: handler, HTTP status, Telegram calls made
    req,        \* the last request as it was received (kept when watch)
    watch,      \* whether the requests are recorded in req
    msgs,       \* the ticket cards in the chat, as Telegram shows them (kept
                \* when msgs.on): card i is the message with message_id i
    procs,      \* the transition requests in flight, one per worker: where
                \* the handler stands and the row its session holds
    commits     \* the transitions committed by the workers, in commit order

vars == <<cfg, tickets, now, nextMsg, last, req, watch, msgs, procs, commits>>

-----------------------------------------------------------------------------
(* Bounds of the model                                                     *)

MaxTickets == 2
MaxMsgs == 2
StartTime == 17
MaxTime == 19
TickHours == 2
MaxWorkers == 2

-----------------------------------------------------------------------------
(* Program constants                                                       *)

\* REMIND_EVERY_SEC, line 43 (defined by the program, read nowhere in it)
REMIND_EVERY_SEC == 14400
\* timedelta(hours=3), line 442
SoonHours == 3
\* replace(hour=23, minute=59, ...), lines 242-248; the minutes are below the
\* clock's resolution: 23:59 < h:00 iff 23 < h for whole hours h
LastHour == 23
DayHours == 24
\* utcoffset of Asia/Almaty, line 46
KZ_OFFSET == 5

\* NULL of a nullable integer / datetime column
NoId == 0
NoDeadline == -1
\* NULL of the nullable string column pc
NoPc == "<null>"

Statuses == {"new", "in_progress", "done", "cancelled"}

-----------------------------------------------------------------------------
(* Configurations                                                          *)

Configs ==
    { [token |-> TRUE,  chat |-> "1",    whSecret |-> "s", cronSecret |-> "c"],
      [token |-> TRUE,  chat |-> "",     whSecret |-> "",  cronSecret |-> ""],
      [token |-> FALSE, chat |-> "@grp", whSecret |-> "",  cronSecret |-> ""] }

\* str.isdigit() and int() on the chat identifiers the model draws
ChatIsDigit(c) == c = "1"
ChatInt(c) == 1
\* the numeric id Telegram reports for the chat a message was sent to
ResultChatId(c) == IF ChatIsDigit(c) THEN ChatInt(c) ELSE 2

-----------------------------------------------------------------------------
(* Helpers                                                                 *)

\* str.strip() on the strings the model draws
Strip(s) ==
    CASE s = " A " -> "A"
      [] s = " " -> ""
      [] s = " done " -> "done"
      [] OTHER -> s

\* lines 240-248: the deadline of a "due" keyword, as a UTC hour
EndOfDay(local) == (local \div DayHours) * DayHours + LastHour

Deadline(due, t) ==
    CASE due = "today" -> EndOfDay(t + KZ_OFFSET) - KZ_OFFSET
      [] due = "tomorrow" -> EndOfDay(t + KZ_OFFSET + DayHours) - KZ_OFFSET
      [] due = "3days" -> EndOfDay(t + KZ_OFFSET + 3 * DayHours) - KZ_OFFSET
      [] OTHER -> NoDeadline

\* lines 250-256 storing the status of the sweep's comment instead of "new"
NewTicket_in_progress(club, pc, description, deadline, t) ==
    [ club |-> club,
      pc |-> IF pc = "" THEN NoPc ELSE pc,
      description |-> description,
      status |-> "in_progress",
      deadline_at |-> deadline,
      created_at |-> t,
      updated_at |-> t,
      tg_chat_id |-> NoId,
      tg_message_id |-> NoId ]

\* lines 250-256 with the column defaults of lines 61-68
NewTicket(club, pc, description, deadline, t) ==
    [ club |-> club,
      pc |-> IF pc = "" THEN NoPc ELSE pc,
      description |-> description,
      status |-> "new",
      deadline_at |-> deadline,
      created_at |-> t,
      updated_at |-> t,
      tg_chat_id |-> NoId,
      tg_message_id |-> NoId ]

-----------------------------------------------------------------------------
(* Telegram                                                                *)

\* what one HTTP call to the Bot API can come back with
TgOutcomes == {"ok", "raise"}
\* sendMessage of a ticket card: "full" is a well-formed answer, "nomsgid" is
\* the malformed answer {"ok":true,"result":{"chat":{"id":..}}}, which has no
\* message_id key
SendOutcomes == {"full", "notok", "raise", "nomsgid"}

\* tg_api without its try/except: a timeout leaves the function
tg_api_uncaught(out) ==
    [ called |-> cfg.token,
      res |-> IF ~cfg.token \/ out = "raise" THEN "None" ELSE out,
      exc |-> cfg.token /\ out = "raise" ]

\* lines 144-155: no call without a token; every exception of the call is
\* caught and turned into None.  exc says whether an exception leaves tg_api.
tg_api(out) ==
    [ called |-> cfg.token,
      res |-> IF ~cfg.token \/ out = "raise" THEN "None" ELSE out,
      exc |-> FALSE ]

\* one Telegram call as the request log keeps it
CallRec(method, kind, tid, shown, chat, mid, r) ==
    [ method |-> method, kind |-> kind, tid |-> tid, shown |-> shown,
      chat |-> chat, mid |-> mid, exc |-> r.exc ]

\* the chat after sendMessage delivered a card: msg_ticket_text renders the
\* ticket's id and status (lines 132-141)
Posted(ms, tid, shown, chat) ==
    IF ~ms.on THEN ms
    ELSE [ms EXCEPT !.cards =
              Append(@, [tid |-> tid, shown |-> shown, chat |-> chat])]

\* the chat after editMessageText succeeded: message mid of the chat now
\* shows the text it was given; a message that is not there is not edited
Edited(ms, tid, shown, chat, mid) ==
    IF ~ms.on \/ mid \notin 1..Len(ms.cards) THEN ms
    ELSE IF ms.cards[mid].chat # chat THEN ms
    ELSE [ms EXCEPT !.cards[mid] =
              [tid |-> tid, shown |-> shown, chat |-> chat]]

\* a handler's run: the session's objects (mem), the committed rows (db),
\* Telegram's message counter, the calls made so far and the chat
Run0 ==
    [ mem |-> tickets, db |-> tickets, nextMsg |-> nextMsg, calls |-> <<>>,
      code |-> 200, sent |-> 0, msgs |-> msgs ]

\* the handler returns with this HTTP status
Return(s, code) == [s EXCEPT !.code = code]

\* an exception that leaves a handler makes Flask answer 500
ResponseCode(s) ==
    IF \E i \in 1..Len(s.calls) : s.calls[i].exc THEN 500 ELSE s.code

\* db.session.commit(): every pending change of the session is written
Commit(s) == [s EXCEPT !.db = s.mem]

\* lines 158-179
send_ticket_to_tg(s, id, out) ==
    IF ~cfg.token THEN s
    ELSE IF cfg.chat = "" THEN s
    ELSE
      LET r == tg_api(out)
          cid == ResultChatId(cfg.chat)
          delivered == r.res = "full"
          mid == IF delivered THEN s.nextMsg ELSE NoId
          call == CallRec("sendMessage", "ticket", id, s.mem[id].status,
                          cid, mid, r)
          s1 == [s EXCEPT !.calls = Append(@, call),
                          !.nextMsg = IF delivered THEN @ + 1 ELSE @,
                          !.msgs = IF delivered
                                   THEN Posted(@, id, s.mem[id].status, cid)
                                   ELSE @]
      IN CASE r.res = "full" ->
                Commit([s1 EXCEPT !.mem[id].tg_chat_id = cid,
                                  !.mem[id].tg_message_id = mid])
           [] r.res = "nomsgid" ->
                \* KeyError after the first assignment: caught, no commit
                [s1 EXCEPT !.mem[id].tg_chat_id = cid]
           [] OTHER -> s1

\* lines 182-192 followed by a commit of the session
edit_ticket_message_in_tg_commit(s, id, out) ==
    IF ~cfg.token \/ s.mem[id].tg_chat_id = NoId \/ s.mem[id].tg_message_id = NoId
    THEN s
    ELSE Commit([s EXCEPT !.calls = Append(@,
              CallRec("editMessageText", "ticket", id, s.mem[id].status,
                      s.mem[id].tg_chat_id, s.mem[id].tg_message_id,
                      tg_api(out)))])

\* lines 182-192 returning before the call
edit_ticket_message_in_tg_skipped(s, id, out) == s

\* lines 182-192
edit_ticket_message_in_tg(s, id, out) ==
    IF ~cfg.token \/ s.mem[id].tg_chat_id = NoId \/ s.mem[id].tg_message_id = NoId
    THEN s
    ELSE [s EXCEPT !.calls = Append(@,
              CallRec("editMessageText", "ticket", id, s.mem[id].status,
                      s.mem[id].tg_chat_id, s.mem[id].tg_message_id,
                      tg_api(out))),
                   !.msgs = IF tg_api(out).res = "ok"
                            THEN Edited(@, id, s.mem[id].status,
                                        s.mem[id].tg_chat_id,
                                        s.mem[id].tg_message_id)
                            ELSE @]

\* tg_api called directly by a handler (a reply or a callback acknowledgment)
tg_call(s, method, kind, tid, shown, chat, out) ==
    IF ~tg_api(out).called THEN s
    ELSE [s EXCEPT !.calls = Append(@,
              CallRec(method, kind, tid, shown, chat, NoId, tg_api(out)))]

-----------------------------------------------------------------------------
(* POST /api/tickets, lines 228-263                                        *)

\* the request bodies the model draws
\* a body may carry keys the handler never reads; status "" stands for a
\* body without the key "status"
Payloads ==
    { [club |-> " A ", pc |-> "",  description |-> "d", due |-> "",
       status |-> ""],
      [club |-> " A ", pc |-> "7", description |-> "d", due |-> "today",
       status |-> "done"],
      [club |-> "",    pc |-> "7", description |-> "d", due |-> "today",
       status |-> ""],
      [club |-> " A ", pc |-> "",  description |-> " ", due |-> "3days",
       status |-> ""] }

\* the end of a request: the response goes out and the session is removed,
\* which drops whatever it had not committed
NoReq == [op |-> "none"]

Done(op, r, run) ==
    \E s \in {run} :
        /\ s.nextMsg <= MaxMsgs + 1
        /\ tickets' = s.db
        /\ nextMsg' = s.nextMsg
        /\ last' = [op |-> op, code |-> ResponseCode(s), calls |-> s.calls,
                    sent |-> s.sent]
        /\ req' = IF watch THEN r ELSE NoReq
        /\ msgs' = s.msgs
        /\ UNCHANGED <<cfg, now, watch, procs, commits>>

create_ticket(data, out, dbOk) ==
    LET c == Strip(data.club)
        p == Strip(data.pc)
        d == Strip(data.description)
        due == data.due
        r == [op |-> "create", club |-> data.club, pc |-> data.pc,
              description |-> data.description, due |-> data.due,
              status |-> data.status]
    IN IF c = "" \/ d = "" THEN Done("create", r, Return(Run0, 400))
       ELSE IF ~dbOk THEN Done("create", r, Return(Run0, 500))
       ELSE
         /\ Len(tickets) < MaxTickets
         /\ LET t == NewTicket(c, p, d, Deadline(Strip(due), now), now)
                id == Len(tickets) + 1
                s0 == Commit([Run0 EXCEPT !.mem = Append(tickets, t)])
            IN Done("create", r, Return(send_ticket_to_tg(s0, id, out), 201))

-----------------------------------------------------------------------------
(* POST /api/tickets/<sid>/status, lines 266-284                           *)

StatusInputs == {"new", "in_progress", " done ", "cancelled", "bogus", ""}
Sids == 1..(MaxTickets + 1)

\* line 270 without the check
StatusAccepted_any(st) == TRUE

\* line 270
StatusAccepted(st) == st \in {"new", "in_progress", "done"}

\* db.session.get(Ticket, sid) finds a row
Exists(s, sid) == sid \in 1..Len(s.mem)

\* t.status = ...; t.updated_at = now_utc(); db.session.commit()
SetAndCommit(s, sid, st) ==
    Commit([s EXCEPT !.mem[sid].status = st, !.mem[sid].updated_at = now])

set_status(sid, status, out, dbOk) ==
    LET new_status == Strip(status)
        r == [op |-> "set_status", sid |-> sid, status |-> status]
    IN IF ~StatusAccepted(new_status)
       THEN Done("set_status", r, Return(Run0, 400))
       ELSE IF ~Exists(Run0, sid) THEN Done("set_status", r, Return(Run0, 404))
       ELSE IF ~dbOk THEN Done("set_status", r, Return(Run0, 500))
       ELSE Done("set_status", r,
                 Return(edit_ticket_message_in_tg(
                            SetAndCommit(Run0, sid, new_status), sid, out), 200))

-----------------------------------------------------------------------------
(* POST /telegram/webhook, lines 290-424                                   *)

\* a chat object of an update; id 0 and "" stand for an absent key
ChatA == [id |-> 1, username |-> "", title |-> ""]
ChatG == [id |-> 2, username |-> "grp", title |-> ""]
Chats == {ChatA, ChatG}

\* str(chat.get("id", ""))
StrId(i) ==
    CASE i = 1 -> "1"
      [] i = 2 -> "2"
      [] i = 3 -> "3"
      [] OTHER -> ""

\* lines 195-211 letting every chat in
chat_allowed_any(chat) == TRUE

\* lines 195-211
chat_allowed(chat) ==
    LET expected == cfg.chat
        variants == {StrId(chat.id)}
                    \cup (IF chat.username # "" THEN {"@" \o chat.username} ELSE {})
                    \cup (IF chat.title # "" THEN {chat.title} ELSE {})
    IN IF expected = "" THEN TRUE ELSE expected \in variants

\* str.isdigit() of a token: true of the ASCII digits and of U+00B2 ("sup2")
IsDigit(tok) == tok \in {"1", "2", "3", "sup2"}
\* int(tok) returns a value; it raises ValueError for U+00B2 and for words
IntOk(tok) == tok \in {"1", "2", "3"}
IntOf(tok) ==
    CASE tok = "1" -> 1
      [] tok = "2" -> 2
      [] tok = "3" -> 3
      [] OTHER -> 0

\* line 294 asking only for some header
secret_ok_nonempty(recv) == ~(cfg.whSecret # "" /\ recv = "")

\* line 294
secret_ok(recv) == ~(cfg.whSecret # "" /\ recv # cfg.whSecret)

\* lines 336-351 and 354-369: parts is text_in.split()
command(s, parts, chat_id, target, out, dbOk) ==
    IF Len(parts) = 2 /\ IsDigit(parts[2]) THEN
        IF ~IntOk(parts[2]) THEN Return(s, 500)
        ELSE LET sid == IntOf(parts[2])
             IN IF ~Exists(s, sid)
                THEN tg_call(s, "sendMessage", "reply", 0, "error",
                             chat_id, out)
                ELSE IF ~dbOk THEN Return(s, 500)
                ELSE tg_call(edit_ticket_message_in_tg(
                                 SetAndCommit(s, sid, target), sid, out),
                             "sendMessage", "reply", sid, target, chat_id, out)
    ELSE tg_call(s, "sendMessage", "reply", 0, "error", chat_id, out)

\* lines 301-371; text is text_in.split(), so text_in == "/id" is <<"/id">>
on_message(s, upd, out, dbOk) ==
    LET chat_id == upd.chat.id
        parts == upd.text
    IN IF ~chat_allowed(upd.chat) THEN s
       ELSE IF parts \in {<<"/start">>, <<"/help">>}
            THEN tg_call(s, "sendMessage", "reply", 0, "info", chat_id, out)
       ELSE IF parts = <<"/id">>
            THEN tg_call(s, "sendMessage", "reply", 0, "info", chat_id, out)
       ELSE IF Len(parts) > 0 /\ parts[1] = "/done"
            THEN command(s, parts, chat_id, "done", out, dbOk)
       ELSE IF Len(parts) > 0 /\ parts[1] = "/work"
            THEN command(s, parts, chat_id, "in_progress", out, dbOk)
       ELSE s

\* line 412 with one label for both
human_same(st) == "Vypolneno"

\* line 412: "В работе" and "Выполнено"
human(st) == IF st = "in_progress" THEN "V rabote" ELSE "Vypolneno"

\* line 398 taking every status of the enum
button_status_ok_enum(st) == st \in Statuses

\* line 398
button_status_ok(st) == st \in {"in_progress", "done"}

\* lines 374-422; data is the callback data split at ":"
on_callback(s, upd, out, dbOk) ==
    LET data == upd.data
        chat_id == upd.chat.id
        message_id == upd.message_id
        ack(r, tid, text) ==
            tg_call(r, "answerCallbackQuery", "ack", tid, text, chat_id, out)
    IN IF ~chat_allowed(upd.chat) THEN ack(s, 0, "error")
       ELSE IF ~(Len(data) >= 2 /\ data[1] = "status")
            THEN ack(s, 0, "error")
       ELSE IF Len(data) < 3 \/ ~IntOk(data[2]) THEN ack(s, 0, "error")
       ELSE LET sid == IntOf(data[2])
                new_status == IF Len(data) = 3 THEN data[3] ELSE "joined"
            IN IF ~button_status_ok(new_status)
               THEN ack(s, 0, "error")
               ELSE IF ~Exists(s, sid) THEN ack(s, 0, "error")
               ELSE IF ~dbOk THEN Return(s, 500)
               ELSE
                 LET s1 == ack(SetAndCommit(s, sid, new_status), sid,
                               human(new_status))
                     \* lines 416-419: set on the object, never committed
                     s2 == [s1 EXCEPT
                              !.mem[sid].tg_chat_id =
                                  IF @ = NoId THEN chat_id ELSE @,
                              !.mem[sid].tg_message_id =
                                  IF @ = NoId THEN message_id ELSE @]
                 IN edit_ticket_message_in_tg(s2, sid, out)

Recvs == {"s", "bad"}
Texts ==
    { <<"/start">>, <<"/help">>, <<"/id">>, <<"hello">>,
      <<"/done">>, <<"/done", "1">>, <<"/done", "3">>, <<"/done", "abc">>,
      <<"/done", "sup2">>, <<"/work", "1">>, <<"/work", "2">> }
Datas ==
    { <<"status", "1", "done">>, <<"status", "1", "in_progress">>,
      <<"status", "2", "done">>, <<"status", "3", "done">>,
      <<"status", "1", "cancelled">>, <<"status", "1">>,
      <<"status", "abc", "done">>, <<"open", "1">> }


Message(c, t) ==
    [kind |-> "message", chat |-> c, text |-> t, data |-> <<>>,
     message_id |-> NoId]
Callback(c, m, d) ==
    [kind |-> "callback_query", chat |-> c, text |-> <<>>, data |-> d,
     message_id |-> m]
Other ==
    [kind |-> "other", chat |-> ChatA, text |-> <<>>, data |-> <<>>,
     message_id |-> NoId]

\* the updates the model draws: every text and token from ChatA, a few from
\* ChatG
Updates ==
    {Message(ChatA, t) : t \in Texts}
    \cup {Message(ChatG, <<"/done", "1">>), Message(ChatG, <<"/id">>)}
    \cup {Callback(ChatA, 1, d) : d \in Datas}
    \cup {Callback(c, NoId, <<"status", "1", "done">>) : c \in Chats}
    \cup {Callback(ChatG, 1, <<"status", "2", "in_progress">>)}
    \cup {Other}

telegram_webhook(recv, upd, out, dbOk) ==
    LET r == [op |-> "webhook", recv |-> recv, upd |-> upd]
    IN IF ~secret_ok(recv) THEN Done("webhook", r, Return(Run0, 403))
       ELSE IF upd.kind = "message"
            THEN Done("webhook", r, on_message(Run0, upd, out, dbOk))
       ELSE IF upd.kind = "callback_query"
            THEN Done("webhook", r, on_callback(Run0, upd, out, dbOk))
       ELSE Done("webhook", r, Run0)

-----------------------------------------------------------------------------
(* GET /cron/remind, lines 430-465                                         *)

\* lines 433-436: only the X-Cron-Secret header is read
cron_allowed(hdr, qry) == ~(cfg.cronSecret # "" /\ hdr # cfg.cronSecret)

\* lines 447-457
need(t, at) ==
    IF t.deadline_at # NoDeadline
    THEN t.deadline_at < at \/ t.deadline_at < at + SoonHours
    ELSE FALSE

\* line 444 without its filter: done rows are swept as well
Rows_all(ts, at) ==
    {i \in 1..Len(ts) : need(ts[i], at)}

\* line 444 with lines 446-459: the ids of the rows that are not done and
\* need a reminder
Rows(ts, at) ==
    {i \in 1..Len(ts) : ts[i].status # "done" /\ need(ts[i], at)}

\* lines 446-463: the rows oldest first (ids are handed out in creation
\* order), each edited and then sent again
\* lines 461-463 sending again only when no message is referenced
remind_once(s, i, out, eout) ==
    LET s1 == IF s.mem[i].tg_message_id # NoId
              THEN edit_ticket_message_in_tg(s, i, eout)
              ELSE send_ticket_to_tg(s, i, out)
    IN [s1 EXCEPT !.sent = @ + 1]

\* lines 461-463
remind(s, i, out, eout) ==
    LET s1 == send_ticket_to_tg(edit_ticket_message_in_tg(s, i, eout), i, out)
    IN [s1 EXCEPT !.sent = @ + 1]

RECURSIVE sweep(_, _, _, _)
sweep(s, i, outs, eout) ==
    IF i > Len(s.mem) THEN s
    ELSE IF i \in Rows(s.mem, now)
         THEN sweep(remind(s, i, outs[i], eout), i + 1, outs, eout)
         ELSE sweep(s, i + 1, outs, eout)

CronSecrets == {"", "c"}

cron_remind(hdr, qry, outs, eout) ==
    LET r == [op |-> "cron", hdr |-> hdr, qry |-> qry]
    IN IF ~cron_allowed(hdr, qry) THEN Done("cron", r, Return(Run0, 403))
       ELSE Done("cron", r, sweep(Run0, 1, outs, eout))

-----------------------------------------------------------------------------
(* The clock                                                               *)

Advance ==
    /\ now + TickHours <= MaxTime
    /\ now' = now + TickHours
    /\ last' = [op |-> "tick", code |-> 0, calls |-> <<>>, sent |-> 0]
    /\ req' = NoReq
    /\ UNCHANGED <<cfg, tickets, nextMsg, watch, msgs, procs, commits>>

-----------------------------------------------------------------------------

\* the chat is not kept
NoChat == [on |-> FALSE, cards |-> <<>>]

\* the workers that serve requests side by side, each with its own session
Workers == 1..MaxWorkers

\* a worker with no transition request in flight
NoRow == [status |-> ""]
Idle ==
    [pc |-> "idle", via |-> "", sid |-> 0, target |-> "", loaded |-> NoRow,
     obj |-> NoRow, code |-> 0]

Init ==
    /\ cfg \in Configs
    /\ tickets = <<>>
    /\ now = StartTime
    /\ nextMsg = 1
    /\ last = [op |-> "init", code |-> 0, calls |-> <<>>, sent |-> 0]
    /\ req = NoReq
    /\ watch = FALSE
    /\ msgs = NoChat
    /\ procs = [p \in Workers |-> Idle]
    /\ commits = <<>>

\* the same start, with the requests recorded
InitReq ==
    /\ cfg \in Configs
    /\ tickets = <<>>
    /\ now = StartTime
    /\ nextMsg = 1
    /\ last = [op |-> "init", code |-> 0, calls |-> <<>>, sent |-> 0]
    /\ req = NoReq
    /\ watch = TRUE
    /\ msgs = NoChat
    /\ procs = [p \in Workers |-> Idle]
    /\ commits = <<>>

\* the same start, with the chat kept
InitSync ==
    /\ cfg \in Configs
    /\ tickets = <<>>
    /\ now = StartTime
    /\ nextMsg = 1
    /\ last = [op |-> "init", code |-> 0, calls |-> <<>>, sent |-> 0]
    /\ req = NoReq
    /\ watch = FALSE
    /\ msgs = [on |-> TRUE, cards |-> <<>>]
    /\ procs = [p \in Workers |-> Idle]
    /\ commits = <<>>

CreateStep ==
    \E data \in Payloads, out \in SendOutcomes :
        create_ticket(data, out, TRUE)

SetStatusStep ==
    \E sid \in Sids, status \in StatusInputs, out \in TgOutcomes :
        set_status(sid, status, out, TRUE)

WebhookStep ==
    \E recv \in Recvs, upd \in Updates, out \in TgOutcomes :
        telegram_webhook(recv, upd, out, TRUE)

CronStep ==
    \E hdr \in CronSecrets, qry \in CronSecrets,
       outs \in [Rows(tickets, now) -> SendOutcomes], eout \in TgOutcomes :
        cron_remind(hdr, qry, outs, eout)

Next ==
    \/ CreateStep
    \/ SetStatusStep
    \/ WebhookStep
    \/ CronStep
    \/ Advance

Spec == Init /\ [][Next]_vars

\* the requests of one instant, each recorded as received
NextReq ==
    \/ CreateStep
    \/ SetStatusStep
    \/ WebhookStep
    \/ CronStep

SpecReq == InitReq /\ [][NextReq]_vars

\* every Telegram call succeeds: sendMessage answers with a well-formed
\* result, editMessageText and the replies answer ok
CreateOk ==
    \E data \in Payloads : create_ticket(data, "full", TRUE)

SetStatusOk ==
    \E sid \in Sids, status \in StatusInputs :
        set_status(sid, status, "ok", TRUE)

WebhookOk ==
    \E recv \in Recvs, upd \in Updates :
        telegram_webhook(recv, upd, "ok", TRUE)

CronOk ==
    \E hdr \in CronSecrets :
        cron_remind(hdr, "", [i \in Rows(tickets, now) |-> "full"], "ok")

NextSync ==
    \/ CreateOk
    \/ SetStatusOk
    \/ WebhookOk
    \/ CronOk
    \/ Advance

SpecSync == InitSync /\ [][NextSync]_vars

\* Transitions served side by side.  A request that is refused returns
\* before it reads a row, so the requests in flight are the accepted ones:
\* an API status update (line 270 passed), a /done command or a button
\* press (secret, chat and token checks passed).
RaceRequests ==
    { [via |-> "api", sid |-> 1, target |-> "new"],
      [via |-> "api", sid |-> 1, target |-> "in_progress"],
      [via |-> "api", sid |-> 1, target |-> "done"],
      [via |-> "api", sid |-> MaxTickets + 1, target |-> "done"],
      [via |-> "command", sid |-> 1, target |-> "done"],
      [via |-> "button", sid |-> 1, target |-> "in_progress"],
      [via |-> "button", sid |-> 1, target |-> "done"] }

\* db.session.get(Ticket, sid), lines 273, 340, 402: the worker's session
\* loads the row as it is stored now; without a row the API answers 404
\* and the webhook 200
Read(p) ==
    /\ procs[p].pc = "idle"
    /\ \E r \in RaceRequests :
          /\ r.via = "api" => StatusAccepted(r.target)
          /\ r.via = "button" => button_status_ok(r.target)
          /\ procs' = [procs EXCEPT ![p] =
                IF r.sid \in 1..Len(tickets)
                THEN [pc |-> "read", via |-> r.via, sid |-> r.sid,
                      target |-> r.target, loaded |-> tickets[r.sid],
                      obj |-> tickets[r.sid], code |-> 0]
                ELSE [Idle EXCEPT !.pc = "done",
                                  !.code = IF r.via = "api" THEN 404 ELSE 200]]
    /\ UNCHANGED <<cfg, tickets, now, nextMsg, last, req, watch, msgs, commits>>

\* t.status = new_status; t.updated_at = now_utc(), lines 277-278, 344-345,
\* 407-408: assignments to the object of the worker's session
Write(p) ==
    /\ procs[p].pc = "read"
    /\ procs' = [procs EXCEPT ![p].pc = "written",
                              ![p].obj.status = procs[p].target,
                              ![p].obj.updated_at = now]
    /\ UNCHANGED <<cfg, tickets, now, nextMsg, last, req, watch, msgs, commits>>

\* the flush of a session: the UPDATE sets the columns whose value on the
\* object differs from the value the session loaded, and no other column
Flush(row, loaded, obj) ==
    [c \in DOMAIN row |-> IF obj[c] # loaded[c] THEN obj[c] ELSE row[c]]

\* db.session.commit(), lines 279, 346, 409
CommitRow(p) ==
    /\ procs[p].pc = "written"
    /\ tickets' = [tickets EXCEPT ![procs[p].sid] =
                       Flush(@, procs[p].loaded, procs[p].obj)]
    /\ commits' = Append(commits, [worker |-> p, sid |-> procs[p].sid,
                                    target |-> procs[p].target])
    /\ procs' = [procs EXCEPT ![p].pc = "committed"]
    /\ UNCHANGED <<cfg, now, nextMsg, last, req, watch, msgs>>

\* what a handler does after its commit, lines 282-284, 347-348, 412-422:
\* the commit expired the object, so it is read again from the stored row
after_commit(via, sid, target, chat, out) ==
    CASE via = "api" -> edit_ticket_message_in_tg(Run0, sid, out)
      [] via = "command" ->
            tg_call(edit_ticket_message_in_tg(Run0, sid, out),
                    "sendMessage", "reply", sid, target, chat.id, out)
      [] via = "button" ->
            LET s1 == tg_call(Run0, "answerCallbackQuery", "ack", sid,
                              human(target), chat.id, out)
                s2 == [s1 EXCEPT
                         !.mem[sid].tg_chat_id =
                             IF @ = NoId THEN chat.id ELSE @,
                         !.mem[sid].tg_message_id =
                             IF @ = NoId THEN 1 ELSE @]
            IN edit_ticket_message_in_tg(s2, sid, out)

\* the rest of the handler and its answer
Respond(p) ==
    /\ procs[p].pc = "committed"
    /\ \E chat \in Chats, out \in TgOutcomes :
          /\ chat_allowed(chat)
          /\ LET s == after_commit(procs[p].via, procs[p].sid,
                                   procs[p].target, chat, out)
             IN /\ last' = [op |-> procs[p].via, code |-> ResponseCode(s),
                            calls |-> s.calls, sent |-> 0]
                /\ procs' = [procs EXCEPT ![p].pc = "done",
                                          ![p].code = ResponseCode(s)]
    /\ UNCHANGED <<cfg, tickets, now, nextMsg, req, watch, msgs, commits>>

\* both workers have answered: the next requests come in
NextRound ==
    /\ \A p \in Workers : procs[p].pc = "done"
    /\ procs' = [p \in Workers |-> Idle]
    /\ commits' = <<>>
    /\ UNCHANGED <<cfg, tickets, now, nextMsg, last, req, watch, msgs>>

NextRace ==
    \/ CreateOk
    \/ \E p \in Workers : Read(p)
    \/ \E p \in Workers : Write(p)
    \/ \E p \in Workers : CommitRow(p)
    \/ \E p \in Workers : Respond(p)
    \/ NextRound

SpecRace == Init /\ [][NextRace]_vars

\* a commit of the handler fails (the connection to the database is lost)
CreateFault ==
    \E data \in Payloads, out \in SendOutcomes :
        create_ticket(data, out, FALSE)

SetStatusFault ==
    \E sid \in Sids, status \in StatusInputs, out \in TgOutcomes :
        set_status(sid, status, out, FALSE)

WebhookFault ==
    \E recv \in Recvs, upd \in Updates, out \in TgOutcomes :
        telegram_webhook(recv, upd, out, FALSE)

NextFault ==
    \/ NextReq
    \/ CreateFault
    \/ SetStatusFault
    \/ WebhookFault

SpecFault == InitReq /\ [][NextFault]_vars

-----------------------------------------------------------------------------
(* Vocabulary of the properties                                            *)

\* the Telegram calls of a request, by position
CallIdx(l) == 1..Len(l.calls)
\* the positions of the ticket cards sent, of the cards edited, of the
\* callback acknowledgments
Sends(l) ==
    {i \in CallIdx(l) : l.calls[i].method = "sendMessage"
                        /\ l.calls[i].kind = "ticket"}
Edits(l) == {i \in CallIdx(l) : l.calls[i].method = "editMessageText"}
Acks(l) == {i \in CallIdx(l) : l.calls[i].method = "answerCallbackQuery"}

\* the request presents the configured webhook secret (or none is configured)
Authenticated(r) == cfg.whSecret = "" \/ r.recv = cfg.whSecret

\* the chat is the configured one (or none is configured)
ChatMatches(chat) ==
    \/ cfg.chat = ""
    \/ cfg.chat = StrId(chat.id)
    \/ chat.username # "" /\ cfg.chat = "@" \o chat.username
    \/ chat.title # "" /\ cfg.chat = chat.title

Numerals == {"1", "2", "3"}

\* a button press status:<id>:<s> on an existing ticket, s a button status
ValidButton(r, ts) ==
    /\ r.op = "webhook"
    /\ r.upd.kind = "callback_query"
    /\ Len(r.upd.data) = 3
    /\ r.upd.data[1] = "status"
    /\ r.upd.data[2] \in Numerals
    /\ IntOf(r.upd.data[2]) \in 1..Len(ts)
    /\ r.upd.data[3] \in {"in_progress", "done"}

\* the requests that ask for a transition and are refused
RejectedApi(r, ts) ==
    /\ r.op = "set_status"
    /\ \/ r.sid \notin 1..Len(ts)
       \/ Strip(r.status) \notin {"new", "in_progress", "done"}

RejectedButton(r, ts) ==
    /\ r.op = "webhook"
    /\ r.upd.kind = "callback_query"
    /\ ~ValidButton(r, ts)

RejectedCommand(r, ts) ==
    /\ r.op = "webhook"
    /\ r.upd.kind = "message"
    /\ Len(r.upd.text) >= 1
    /\ r.upd.text[1] \in {"/done", "/work"}
    /\ \/ Len(r.upd.text) # 2
       \/ r.upd.text[2] \notin Numerals
       \/ IntOf(r.upd.text[2]) \notin 1..Len(ts)

-----------------------------------------------------------------------------
(* C1..C10                                                                 *)

\* C1: a create with non-empty club and description answers 201 and its
\* ticket is stored, and a status update of an existing ticket with an
\* accepted status answers 200 and the status is stored, whatever Telegram
\* answered and whether or not token and chat are configured.
C1_NotificationIsolated ==
    /\ (req.op = "create" /\ Strip(req.club) # ""
            /\ Strip(req.description) # "")
        => /\ last.code = 201
           /\ Len(tickets) >= 1
           /\ tickets[Len(tickets)].club = Strip(req.club)
           /\ tickets[Len(tickets)].description = Strip(req.description)
           /\ tickets[Len(tickets)].status = "new"
    /\ (req.op = "set_status" /\ req.sid \in 1..Len(tickets)
            /\ Strip(req.status) \in {"new", "in_progress", "done"})
        => /\ last.code = 200
           /\ tickets[req.sid].status = Strip(req.status)

\* a create whose sendMessage failed: answered 201, stored without a ref
C1_Witness ==
    /\ req.op = "create"
    /\ last.code = 201
    /\ Len(last.calls) = 1
    /\ last.calls[1].mid = NoId
    /\ tickets[Len(tickets)].tg_message_id = NoId

\* C2: with a webhook secret configured, a request with another secret is
\* answered 403, makes no Telegram call and changes no ticket.
C2_BadSecretRejected ==
    [][ (req'.op = "webhook" /\ cfg.whSecret # "" /\ req'.recv # cfg.whSecret)
        => /\ last'.code = 403
           /\ last'.calls = <<>>
           /\ tickets' = tickets
           /\ nextMsg' = nextMsg ]_vars

\* a refused request that carried a valid button press for a stored ticket
\* in another status
C2_Witness ==
    /\ req.op = "webhook"
    /\ cfg.whSecret # ""
    /\ req.recv # cfg.whSecret
    /\ last.code = 403
    /\ ValidButton(req, tickets)
    /\ ChatMatches(req.upd.chat)
    /\ tickets[IntOf(req.upd.data[2])].status # req.upd.data[3]

\* C3: every webhook request that passes the secret check is answered 200.
C3_WebhookAlwaysOk ==
    (req.op = "webhook" /\ Authenticated(req)) => last.code = 200

\* C4: the status of every stored ticket is one of the four enum values.
C4_StatusInEnum ==
    \A i \in 1..Len(tickets) : tickets[i].status \in Statuses

\* a status update refused with 400 while tickets in two statuses are stored
C4_Witness ==
    /\ last.op = "set_status"
    /\ last.code = 400
    /\ Len(tickets) >= 2
    /\ tickets[1].status = "done"
    /\ tickets[2].status = "in_progress"

\* C5 as stated: a ticket card is sent only for a ticket whose ref is absent.
C5_SendOnlyWithoutRef ==
    [][ \A i \in Sends(last') :
            last'.calls[i].tid \in 1..Len(tickets)
            => /\ tickets[last'.calls[i].tid].tg_chat_id = NoId
               /\ tickets[last'.calls[i].tid].tg_message_id = NoId ]_vars

\* C5 amended: status updates, commands and button presses send no ticket
\* card, and an edit for a ticket with a stored message id targets that
\* message; create sends at most one card, for the new ticket; a sweep with
\* token and chat configured sends a card for every row it reminds, with or
\* without a stored ref, and its edits target the stored message.
C5_SendVersusEdit ==
    [][ /\ last'.op \in {"set_status", "webhook"}
            => /\ Sends(last') = {}
               /\ \A i \in Edits(last') :
                      tickets[last'.calls[i].tid].tg_message_id # NoId
                      => /\ last'.calls[i].mid =
                                tickets[last'.calls[i].tid].tg_message_id
                         /\ last'.calls[i].chat =
                                tickets[last'.calls[i].tid].tg_chat_id
        /\ last'.op = "create"
            => /\ Cardinality(Sends(last')) <= 1
               /\ \A i \in Sends(last') :
                      last'.calls[i].tid = Len(tickets) + 1
        /\ (last'.op = "cron" /\ last'.code = 200)
            => /\ (cfg.token /\ cfg.chat # "")
                    => \A t \in Rows(tickets, now) :
                           \E i \in Sends(last') : last'.calls[i].tid = t
               /\ \A i \in Edits(last') :
                      /\ last'.calls[i].mid =
                             tickets[last'.calls[i].tid].tg_message_id
                      /\ last'.calls[i].chat =
                             tickets[last'.calls[i].tid].tg_chat_id ]_vars

\* a sweep that edited a ticket's referenced message and then sent a new
\* card for the same ticket, which the ref now points to
C5_Witness ==
    /\ last.op = "cron"
    /\ \E i \in Edits(last), j \in Sends(last) :
          /\ i < j
          /\ last.calls[i].tid = last.calls[j].tid
          /\ last.calls[j].mid # NoId
          /\ last.calls[j].mid # last.calls[i].mid
          /\ tickets[last.calls[j].tid].tg_message_id = last.calls[j].mid

\* C6: tg_chat_id and tg_message_id of a stored ticket are both set or both
\* null.
C6_RefWhole ==
    \A i \in 1..Len(tickets) :
        (tickets[i].tg_chat_id = NoId) <=> (tickets[i].tg_message_id = NoId)

\* a card of the ticket was delivered in the request
Reminded(l, t) ==
    \E i \in Sends(l) : l.calls[i].tid = t /\ l.calls[i].mid # NoId

\* the reminder interval in hours of the clock
RemindEveryHours == REMIND_EVERY_SEC \div 3600

\* C7: a sweep that follows a sweep with no time passed in between sends no
\* reminder for an overdue, not-done ticket the first sweep reminded.
C7_NoRepeatWithinInterval ==
    [][ (last.op = "cron" /\ last'.op = "cron" /\ now' = now
            /\ RemindEveryHours > 0)
        => \A t \in 1..Len(tickets) :
               (/\ tickets[t].status # "done"
                /\ tickets[t].deadline_at # NoDeadline
                /\ tickets[t].deadline_at < now
                /\ Reminded(last, t))
               => \A i \in Sends(last') : last'.calls[i].tid # t ]_vars

\* C8: with a cron secret configured the sweep runs exactly when the secret
\* is given as the query parameter or as the header, and a refused request
\* is answered 403, sends nothing and changes no ticket; with no secret
\* configured every request runs the sweep.
C8_CronSecret ==
    [][ req'.op = "cron"
        => IF cfg.cronSecret = "" \/ req'.qry = cfg.cronSecret
                                  \/ req'.hdr = cfg.cronSecret
           THEN last'.code = 200
           ELSE /\ last'.code = 403
                /\ last'.calls = <<>>
                /\ tickets' = tickets ]_vars

\* C9: a refused transition request changes no field of any ticket and edits
\* no ticket message.
C9_RejectedNoEffect ==
    [][ (\/ RejectedApi(req', tickets)
         \/ RejectedButton(req', tickets)
         \/ RejectedCommand(req', tickets))
        => /\ tickets' = tickets
           /\ Edits(last') = {} ]_vars

\* an authenticated button press from the configured chat naming a status
\* that is no button status, for a stored ticket whose message is referenced
C9_Witness ==
    /\ RejectedButton(req, tickets)
    /\ Authenticated(req)
    /\ cfg.chat # ""
    /\ ChatMatches(req.upd.chat)
    /\ Len(req.upd.data) = 3
    /\ req.upd.data[2] = "1"
    /\ req.upd.data[3] = "cancelled"
    /\ Len(tickets) >= 1
    /\ tickets[1].tg_message_id # NoId
    /\ last.code = 200

\* the label the acknowledgment of a button status carries
Label(st) ==
    CASE st = "in_progress" -> "V rabote"
      [] st = "done" -> "Vypolneno"

\* C10 as stated: after a valid button press from an allowed chat the ticket
\* has the status asked for, exactly one acknowledgment with the label of
\* that status was issued, and the answer is 200.
C10_ButtonApplied ==
    (ValidButton(req, tickets) /\ Authenticated(req)
        /\ ChatMatches(req.upd.chat))
    => /\ tickets[IntOf(req.upd.data[2])].status = req.upd.data[3]
       /\ last.code = 200
       /\ Cardinality(Acks(last)) = 1
       /\ \A i \in Acks(last) : last.calls[i].shown = Label(req.upd.data[3])

\* C10 amended: the acknowledgment is issued when a bot token is configured;
\* without a token no Telegram call is made.
C10_ButtonAppliedWithToken ==
    (ValidButton(req, tickets) /\ Authenticated(req)
        /\ ChatMatches(req.upd.chat))
    => /\ tickets[IntOf(req.upd.data[2])].status = req.upd.data[3]
       /\ last.code = 200
       /\ IF cfg.token
          THEN /\ Cardinality(Acks(last)) = 1
               /\ \A i \in Acks(last) :
                      last.calls[i].shown = Label(req.upd.data[3])
          ELSE last.calls = <<>>

\* a press of the in-progress button, acknowledged with its label
C10_Witness ==
    /\ ValidButton(req, tickets)
    /\ Authenticated(req)
    /\ ChatMatches(req.upd.chat)
    /\ cfg.token
    /\ req.upd.data[3] = "in_progress"
    /\ tickets[IntOf(req.upd.data[2])].status = "in_progress"
    /\ \E i \in Acks(last) : last.calls[i].shown = "V rabote"

-----------------------------------------------------------------------------
(* C11..C20                                                                *)

\* the request asks for ticket t to become done and passes the secret and
\* chat checks: the API status update, the /done command or the done button
DoneRequest(r, t) ==
    \/ /\ r.op = "set_status"
       /\ r.sid = t
       /\ Strip(r.status) = "done"
    \/ /\ r.op = "webhook"
       /\ Authenticated(r)
       /\ ChatMatches(r.upd.chat)
       /\ \/ /\ r.upd.kind = "message"
             /\ Len(r.upd.text) = 2
             /\ r.upd.text[1] = "/done"
             /\ r.upd.text[2] \in Numerals
             /\ IntOf(r.upd.text[2]) = t
          \/ /\ r.upd.kind = "callback_query"
             /\ Len(r.upd.data) = 3
             /\ r.upd.data[1] = "status"
             /\ r.upd.data[2] \in Numerals
             /\ IntOf(r.upd.data[2]) = t
             /\ r.upd.data[3] = "done"

\* the answer of a request that succeeded
Succeeded(l) == l.code = 200

\* C11: when two requests in a row ask for the same existing ticket to
\* become done (API, /done command or done button, in any mix), both are
\* answered 200, the ticket is done after each, and the second changes no
\* field of the ticket other than updated_at.
C11_DoneTwice ==
    [][ \A t \in 1..Len(tickets) :
            (DoneRequest(req, t) /\ DoneRequest(req', t))
            => /\ Succeeded(last)
               /\ Succeeded(last')
               /\ tickets[t].status = "done"
               /\ tickets'[t].status = "done"
               /\ Len(tickets') = Len(tickets)
               /\ tickets'[t] =
                      [tickets[t] EXCEPT !.updated_at = tickets'[t].updated_at]
       ]_vars

\* a done button pressed, with a token configured, on a ticket that is done
\* and has no stored ref: the press fills the ref on the object and edits,
\* and the stored row keeps no ref
C11_Witness ==
    /\ Len(tickets) >= 1
    /\ DoneRequest(req, 1)
    /\ req.op = "webhook"
    /\ req.upd.kind = "callback_query"
    /\ req.upd.message_id # NoId
    /\ cfg.token
    /\ Succeeded(last)
    /\ Edits(last) # {}
    /\ tickets[1].status = "done"
    /\ tickets[1].tg_message_id = NoId

\* the body has non-empty club and description
ValidPayload(d) == Strip(d.club) # "" /\ Strip(d.description) # ""

\* the ticket stores the club, pc, description and due of the body
StoredFrom(t, d) ==
    /\ t.club = Strip(d.club)
    /\ t.pc = IF Strip(d.pc) = "" THEN NoPc ELSE Strip(d.pc)
    /\ t.description = Strip(d.description)
    /\ t.deadline_at = Deadline(Strip(d.due), t.created_at)

\* the request was a create that stored a ticket
Created(l) == l.op = "create" /\ l.code = 201

C13_EveryTargetAccepted ==
    (req.op = "set_status" /\ req.sid \in 1..Len(tickets)
        /\ Strip(req.status) \in Statuses)
    => /\ Succeeded(last)
       /\ tickets[req.sid].status = Strip(req.status)

\* a sweep that passed the secret check
SweepRan(l) == l.op = "cron" /\ l.code = 200

\* the notifier has a token and a chat to send to
NotifierConfigured == cfg.token /\ cfg.chat # ""

\* C14: a sweep leaves the set of stored tickets as it was and changes none
\* of id, club, pc, description, status, deadline, created_at, tg_chat_id
\* and tg_message_id of any ticket.
C14_SweepFrame ==
    [][ last'.op = "cron"
        => /\ Len(tickets') = Len(tickets)
           /\ \A i \in 1..Len(tickets) :
                  /\ tickets'[i].club = tickets[i].club
                  /\ tickets'[i].pc = tickets[i].pc
                  /\ tickets'[i].description = tickets[i].description
                  /\ tickets'[i].status = tickets[i].status
                  /\ tickets'[i].deadline_at = tickets[i].deadline_at
                  /\ tickets'[i].created_at = tickets[i].created_at
                  /\ tickets'[i].tg_chat_id = tickets[i].tg_chat_id
                  /\ tickets'[i].tg_message_id = tickets[i].tg_message_id
       ]_vars

\* the deadline of the ticket is before the instant
Overdue(t, at) == t.deadline_at # NoDeadline /\ t.deadline_at < at

\* the ids of the overdue tickets that are not done
OverdueOpen(ts, at) ==
    {i \in 1..Len(ts) : Overdue(ts[i], at) /\ ts[i].status # "done"}

DueSoon(t, at) ==
    /\ t.deadline_at # NoDeadline
    /\ at <= t.deadline_at
    /\ t.deadline_at < at + SoonHours

\* C16: with the notifier configured, a sweep sends a card for every open
\* ticket without a deadline for which no card was ever delivered; and of
\* two sweeps in a row at the same hour, the second sends nothing for an
\* open ticket inside the look-ahead window that the first reminded.
C16_IntervalAndOnce ==
    [][ SweepRan(last')
        => /\ (NotifierConfigured /\ RemindEveryHours > 0)
                => \A t \in 1..Len(tickets) :
                       (/\ tickets[t].status # "done"
                        /\ tickets[t].deadline_at = NoDeadline
                        /\ tickets[t].tg_message_id = NoId
                        /\ tickets[t].tg_chat_id = NoId)
                       => \E i \in Sends(last') : last'.calls[i].tid = t
           /\ (SweepRan(last) /\ now' = now)
                => \A t \in 1..Len(tickets) :
                       (/\ tickets[t].status # "done"
                        /\ DueSoon(tickets[t], now)
                        /\ Reminded(last, t))
                       => \A i \in Sends(last') : last'.calls[i].tid # t
       ]_vars

\* the cards of the request that Telegram delivered
Delivered(l) == {i \in Sends(l) : l.calls[i].mid # NoId}

\* C17: the count a sweep returns is the number of cards delivered to the
\* chat during the sweep.
C17_CountIsSent ==
    SweepRan(last) => last.sent = Cardinality(Delivered(last))

\* the ticket has a stored notification_ref
HasRef(t) == t.tg_chat_id # NoId /\ t.tg_message_id # NoId

\* the referenced message of the ticket is in the chat and shows the
\* ticket and its stored status
RefInSync(i) ==
    /\ tickets[i].tg_message_id \in 1..Len(msgs.cards)
    /\ msgs.cards[tickets[i].tg_message_id].chat = tickets[i].tg_chat_id
    /\ msgs.cards[tickets[i].tg_message_id].tid = i
    /\ msgs.cards[tickets[i].tg_message_id].shown = tickets[i].status

\* C18 as stated: with every Telegram call succeeding, after every request
\* the referenced message of every ticket with a ref shows the ticket's
\* stored status, and so does every other card in the chat for its ticket.
C18_AllCardsInSync ==
    /\ \A i \in 1..Len(tickets) : HasRef(tickets[i]) => RefInSync(i)
    /\ \A m \in 1..Len(msgs.cards) :
           msgs.cards[m].shown = tickets[msgs.cards[m].tid].status

\* C18 amended: with every Telegram call succeeding, after every request
\* the referenced message of every ticket with a ref shows the ticket's
\* stored status; a card a sweep has replaced keeps the status it showed
\* when it was replaced.
C18_RefInSync ==
    \A i \in 1..Len(tickets) : HasRef(tickets[i]) => RefInSync(i)

\* a ticket whose ref a sweep moved to the second card and whose status was
\* changed afterwards: the second card shows the status, the first is stale
C18_Witness ==
    /\ Len(tickets) >= 1
    /\ Len(msgs.cards) = 2
    /\ tickets[1].tg_message_id = 2
    /\ tickets[1].status = "in_progress"
    /\ msgs.cards[2].shown = "in_progress"
    /\ msgs.cards[1].tid = 1
    /\ msgs.cards[1].shown = "new"
    /\ last.op \in {"set_status", "webhook"}
    /\ Edits(last) # {}

\* a well-formed /done or /work command for an existing ticket
ValidCommand(r, ts) ==
    /\ r.op = "webhook"
    /\ r.upd.kind = "message"
    /\ Len(r.upd.text) = 2
    /\ r.upd.text[1] \in {"/done", "/work"}
    /\ r.upd.text[2] \in Numerals
    /\ IntOf(r.upd.text[2]) \in 1..Len(ts)

\* the status a command asks for
CommandTarget(word) == IF word = "/done" THEN "done" ELSE "in_progress"

\* id, @username and title of the chat all differ from the configured chat
ForeignChat(chat) ==
    /\ cfg.chat # ""
    /\ cfg.chat # StrId(chat.id)
    /\ chat.username = "" \/ cfg.chat # "@" \o chat.username
    /\ chat.title = "" \/ cfg.chat # chat.title

\* C20: with a chat configured, a webhook message or button press from a
\* chat whose id, @username and title all differ from it changes no ticket,
\* whatever it carries; with no chat configured, a well-formed command or
\* button press for an existing ticket is applied from every chat.
C20_ChatAllowList ==
    [][ (req'.op = "webhook"
            /\ req'.upd.kind \in {"message", "callback_query"})
        => /\ ForeignChat(req'.upd.chat) => tickets' = tickets
           /\ (cfg.chat = "" /\ Authenticated(req')
                /\ ValidButton(req', tickets))
               => tickets'[IntOf(req'.upd.data[2])].status = req'.upd.data[3]
           /\ (cfg.chat = "" /\ Authenticated(req')
                /\ ValidCommand(req', tickets))
               => tickets'[IntOf(req'.upd.text[2])].status =
                      CommandTarget(req'.upd.text[1])
       ]_vars

\* a request with the right secret from a foreign chat, carrying a valid
\* button press for a stored ticket in another status: answered 200, the
\* ticket as it was
C20_Witness ==
    /\ req.op = "webhook"
    /\ cfg.whSecret # ""
    /\ req.recv = cfg.whSecret
    /\ ForeignChat(req.upd.chat)
    /\ ValidButton(req, tickets)
    /\ tickets[IntOf(req.upd.data[2])].status # req.upd.data[3]
    /\ last.code = 200

\* C19: when two transitions of the same ticket were served side by side
\* and both have answered, both were answered 200 and the stored status is
\* the one asked for by the transition that committed last.
C19_LastCommitWins ==
    (/\ \A p \in Workers : procs[p].pc = "done"
     /\ Len(commits) = 2
     /\ commits[1].sid = commits[2].sid)
    => /\ \A p \in Workers : procs[p].code = 200
       /\ tickets[commits[2].sid].status = commits[2].target

====
